---- MODULE Spec2Model ----
(***************************************************************************)
(* DemoDirector editor (src/components/Editor.tsx): live preview playback  *)
(* of a recorded video with a narration track and timed overlays, and the  *)
(* offline export engine (renderToVideo) driven by handleExportVideo and   *)
(* handleGenerateMagicGifs.                                                *)
(*                                                                         *)
(* Times are integers in tenths of a second (0.3 s = 3, 2.0 s = 20).       *)
(* Every `await` of the source is a point where other handlers may run;    *)
(* the code between two awaits is one action.  React state written by a    *)
(* handler is visible to the handlers that run after it (the listeners are *)
(* re-registered by the effect on every change of their dependencies).     *)
(***************************************************************************)
EXTENDS Integers, Sequences, FiniteSets, TLC

\* ------------------------------------------------------------------ bounds
\* Length of the recorded media (and of the narration), in tenths of a second.
MediaEnd == 40
\* Distance between two decoded frames, in tenths of a second.
FrameStep == 20
\* Media events ('play', 'pause', 'waiting') queued and not yet dispatched.
MaxPending == 1
\* Largest clock position, in tenths of a second, at which the observation
\* of a playing preview starts.
MaxSeed == 8
\* Advance of the two clocks between two observations, in tenths of a second.
ClockStep == 1
\* Longest raw event list the model's response holds.
MaxRawLen == 2
\* Bits of the significand of a number (53 in a JavaScript double): a sum or
\* difference that needs more is rounded to the nearest number that fits.
SignificandBits == 4

\* ------------------------------------------------------- program constants
DriftThreshold == 3
DefaultDuration == 300
ClipLength == 30
DefaultZoomXY == 50
DefaultZoomScale == 15
MaxClips == 3
MinDuration == 20
\* The recorded viewport.
VideoWidth == 1280
VideoHeight == 720
\* The layout of a frame is computed in units of 80 pixels (1280 = 16,
\* 720 = 9), sizes the significand of the model holds exactly, and its
\* numbers are binary fractions, counted in 64ths of a unit.
LayoutUnit == 80
Fixed == 64

Undef == -1

Min(a, b) == IF a <= b THEN a ELSE b
\* The difference taken with its sign.
Signed(a) == a

Abs(a) == IF a < 0 THEN -a ELSE a

\* ---------------------------------------------------------------- inputs
\* TimelineEvent (src/types.ts): details may be absent, and each of its
\* fields may be absent (Undef).
\* text is the sequence of its characters.
Ev(id, s, e, text, type, hasDetails, x, y, z) ==
    [id |-> id, startTime |-> s, endTime |-> e, text |-> text, type |-> type,
     hasDetails |-> hasDetails, x |-> x, y |-> y, zoomScale |-> z]

Sub(s, e, text) == [startTime |-> s, endTime |-> e, text |-> text]

\* Timelines as analyzeVideoAndGenerateTimeline returns them: every event at
\* least 2.0 s long, ascending by startTime.
Timelines ==
    { << Ev("e1", 0, 20, << "H", "i", " ", "x" >>, "caption", FALSE, Undef, Undef, Undef),
         Ev("e2", 10, 30, << "z" >>, "zoom", TRUE, 30, 70, Undef),
         Ev("e3", 20, 45, << "a", " ", " ", "b" >>, "highlight", FALSE, Undef, Undef, Undef) >>,
      << Ev("z1", 0, 20, << "z" >>, "zoom", FALSE, Undef, Undef, Undef) >> }

\* A timeline in which a zoom and a highlight come before a caption they
\* overlap.
CaptionLast ==
    << Ev("k1", 0, 20, << "z" >>, "zoom", TRUE, 30, 70, 20),
       Ev("k2", 0, 25, << "h" >>, "highlight", FALSE, Undef, Undef, Undef),
       Ev("k3", 10, 30, << "c" >>, "caption", FALSE, Undef, Undef, Undef) >>

SubtitleLists ==
    { << Sub(0, 25, "Welcome"), Sub(20, 40, "Bye") >> }

\* The browser the editor runs in: whether video elements offer
\* requestVideoFrameCallback, whether MediaRecorder accepts VP9 in WebM, and
\* whether it accepts another video type (VP8 in WebM, H.264 in MP4).
Environments ==
    { [rvfc |-> TRUE, vp9 |-> TRUE, otherCodec |-> TRUE],
      [rvfc |-> FALSE, vp9 |-> TRUE, otherCodec |-> TRUE],
      [rvfc |-> TRUE, vp9 |-> FALSE, otherCodec |-> TRUE] }

\* ------------------------------------------------------------ numbers
RECURSIVE Pow2(_)
Pow2(n) == IF n = 0 THEN 1 ELSE 2 * Pow2(n - 1)

\* The spacing of the representable numbers around n >= 0.
RECURSIVE Ulp(_)
Ulp(n) == IF n < Pow2(SignificandBits) THEN 1 ELSE 2 * Ulp(n \div 2)

\* Round to nearest, ties to the even significand.
RoundNat(n) ==
    LET u == Ulp(n)
        lo == (n \div u) * u
        hi == lo + u
    IN IF n = lo THEN n
       ELSE IF n - lo < hi - n THEN lo
       ELSE IF n - lo > hi - n THEN hi
       ELSE IF (lo \div u) % 2 = 0 THEN lo ELSE hi

\* The rounding as a function of the number rounded, which is evaluated once.
RoundValue[x \in Int] == IF x < 0 THEN -RoundNat(-x) ELSE RoundNat(x)

Round(x) == RoundValue[x]

\* JSON.parse of a number literal, and the arithmetic of Number.
ParseNumber(x) == Round(x)
Plus(a, b) == Round(a + b)
Minus(a, b) == Round(a - b)
Times(a, b) == Round(a * b)

\* n / d for n >= 0 and d > 0, rounded to nearest, ties to even.
Quotient(n, d) ==
    LET q == n \div d
        u == Ulp(q)
        lo == (q \div u) * u
        hi == lo + u
    IN IF 2 * (n - lo * d) < u * d THEN lo
       ELSE IF 2 * (n - lo * d) > u * d THEN hi
       ELSE IF (lo \div u) % 2 = 0 THEN lo ELSE hi

Max(a, b) == IF a >= b THEN a ELSE b

\* ------------------------------------------- analyzeVideoAndGenerateTimeline
\* timeline.map(t => ...): an event shorter than 2.0 s ends at startTime + 2.0
SanitizeEvent(t) ==
    [t EXCEPT !.endTime = IF Minus(t.endTime, t.startTime) < MinDuration
                          THEN Plus(t.startTime, MinDuration)
                          ELSE t.endTime]

\* The compare function (a, b) => a.startTime - b.startTime
CompareStart(a, b) == Minus(a.startTime, b.startTime)

\* x put before the first entry it compares less than, or equal to.
RECURSIVE InsertBeforeTies(_, _)
InsertBeforeTies(x, sorted) ==
    IF sorted = << >> THEN << x >>
    ELSE IF CompareStart(x, Head(sorted)) <= 0 THEN << x >> \o sorted
    ELSE << Head(sorted) >> \o InsertBeforeTies(x, Tail(sorted))

\* Array.prototype.sort is stable: x, which came after the entries of sorted,
\* is put before the first entry it compares less than.
RECURSIVE Insert(_, _)
Insert(x, sorted) ==
    IF sorted = << >> THEN << x >>
    ELSE IF CompareStart(x, Head(sorted)) < 0 THEN << x >> \o sorted
    ELSE << Head(sorted) >> \o Insert(x, Tail(sorted))

\* The list left in its order.
Unsorted(list) == list

\* list.sort((a, b) => a.startTime - b.startTime)
RECURSIVE SortByStart(_)
SortByStart(list) ==
    IF list = << >> THEN << >>
    ELSE Insert(list[Len(list)], SortByStart(SubSeq(list, 1, Len(list) - 1)))

SanitizeTimeline(raw) ==
    SortByStart([i \in 1 .. Len(raw) |-> SanitizeEvent(raw[i])])

\* result.visualEvents as JSON.parse returns it: events of any length, in
\* any order, also ending before they start.
RawIds == << "r1", "r2", "r3", "r4" >>
RawStarts == { 0, 1, 10 }
RawEnds == { 5, 30, 40 }
RawShapes ==
    { Ev("", ParseNumber(st), ParseNumber(en), << "t" >>, type, FALSE, Undef, Undef, Undef) :
        st \in RawStarts, en \in RawEnds, type \in { "caption", "zoom" } }

RawTimelines ==
    UNION { { [i \in 1 .. n |-> [f[i] EXCEPT !.id = RawIds[i]]] : f \in [1 .. n -> RawShapes] } :
            n \in 0 .. MaxRawLen }

\* result.subtitles, or the fallback subtitle when the response has none.
RawSubtitleLists ==
    { << Sub(0, 50, "Welcome to the demo of url") >>,
      << Sub(20, 40, "Bye"), Sub(0, 24, "Welcome") >>,
      << Sub(10, 30, "b"), Sub(10, 20, "a"), Sub(0, 12, "c") >> }

VARIABLES
    videoSize,           \* videoWidth and videoHeight of the recording
    timeline,            \* prop timeline: TimelineEvent[]
    subtitles,           \* prop subtitles: Subtitle[]
    audioBlob,           \* prop audioBlob is not null
    env,                 \* the browser
    mounted,             \* the Editor component is mounted
    isPlaying, currentTime, duration, currentCaption, currentSubtitle,
    isVoiceoverEnabled, showExportMenu, isExporting, exportProgress,
    generatedGifs, zoomStyle,
    vid,                 \* videoRef.current: [paused, currentTime]
    aud,                 \* audioRef.current: [paused, currentTime]
    pending,             \* media events of vid queued for dispatch
    jobs,                \* handler invocations and their renderToVideo run
    lastDownload         \* the last a.click() download handed to the user

vars == << videoSize, timeline, subtitles, audioBlob, env, mounted,
           isPlaying, currentTime, duration, currentCaption, currentSubtitle,
           isVoiceoverEnabled, showExportMenu, isExporting, exportProgress,
           generatedGifs, zoomStyle, vid, aud, pending, jobs, lastDownload >>

props == << videoSize, timeline, subtitles, audioBlob, env >>
tickState == << currentTime, currentCaption, currentSubtitle, zoomStyle >>

\* Handler invocations in flight at once: an export or highlight batch and
\* one that overlaps it.
Handlers == { 1, 2 }

\* ------------------------------------------------------ activity queries
\* Array.prototype.find: hits is the set of indices whose entry satisfies
\* the test; the result is the first of them in list order, 0 for undefined.
\* The last of the hits in list order instead of the first.
FindLast(hits) == IF hits = {} THEN 0 ELSE CHOOSE i \in hits : \A j \in hits : i >= j

Find(hits) == IF hits = {} THEN 0 ELSE CHOOSE i \in hits : \A j \in hits : i <= j

\* The interval without its end.
ContainsHalfOpen(e, t) == t >= e.startTime /\ t < e.endTime

Contains(e, t) == t >= e.startTime /\ t <= e.endTime

\* A search that looks at the head of the list only.
ActiveEventAtHead(tl, t) == IF Len(tl) > 0 /\ Contains(tl[1], t) THEN 1 ELSE 0

\* handleTimeUpdate: timeline.find(e => time >= e.startTime && time <= e.endTime)
ActiveEvent(tl, t) == Find({ i \in 1 .. Len(tl) : Contains(tl[i], t) })

\* handleTimeUpdate: subtitles.find(...); drawFrame: subtitles.find(...)
ActiveSubtitle(subs, t) == Find({ i \in 1 .. Len(subs) : Contains(subs[i], t) })

\* handleTimeUpdate: timeline.find(e => e.type === 'zoom' && ...)
ActiveZoom(tl, t) ==
    Find({ i \in 1 .. Len(tl) : tl[i].type = "zoom" /\ Contains(tl[i], t) })

\* The same search without the test of the type.
ExportCaptionOfAnyType(tl, t) ==
    Find({ i \in 1 .. Len(tl) : Contains(tl[i], t) })

\* The first event that holds t, taken only when it is a caption.
ExportCaptionOfFirstActive(tl, t) ==
    LET i == Find({ k \in 1 .. Len(tl) : Contains(tl[k], t) })
    IN IF i # 0 /\ tl[i].type = "caption" THEN i ELSE 0

\* drawFrame: timeline.find(e => ... && e.type === 'caption')
ExportCaption(tl, t) ==
    Find({ i \in 1 .. Len(tl) : Contains(tl[i], t) /\ tl[i].type = "caption" })

InitialZoomStyle == [origin |-> << Undef, Undef >>, scale |-> 10, transition |-> "initial"]
ResetZoomStyle == [origin |-> << DefaultZoomXY, DefaultZoomXY >>, scale |-> 10, transition |-> "ease-out"]

Default(v, d) == IF v = Undef THEN d ELSE v

\* A tick that leaves the zoom as it is when no zoom event is active.
ZoomStyleKept(tl, t) ==
    LET z == ActiveZoom(tl, t) IN
    IF z # 0 /\ tl[z].hasDetails
    THEN [origin |-> << Default(tl[z].x, DefaultZoomXY), Default(tl[z].y, DefaultZoomXY) >>,
          scale |-> Default(tl[z].zoomScale, DefaultZoomScale),
          transition |-> "cubic-bezier"]
    ELSE zoomStyle

\* handleTimeUpdate, "Handle Zoom"
ZoomStyleAt(tl, t) ==
    LET z == ActiveZoom(tl, t) IN
    IF z # 0 /\ tl[z].hasDetails
    THEN [origin |-> << Default(tl[z].x, DefaultZoomXY), Default(tl[z].y, DefaultZoomXY) >>,
          scale |-> Default(tl[z].zoomScale, DefaultZoomScale),
          transition |-> "cubic-bezier"]
    ELSE ResetZoomStyle

\* ------------------------------------------------------- frame compositing
\* The recorded viewport, in layout units.
Viewport == << VideoWidth \div LayoutUnit, VideoHeight \div LayoutUnit >>

\* The same layout with the smaller of the two ratios (fit/contain).
LayoutContain(width, height, vidW, vidH) ==
    LET scale == Min(Quotient(width * Fixed, vidW), Quotient(height * Fixed, vidH))
        scaledW == Times(vidW, scale)
        scaledH == Times(vidH, scale)
    IN [scale |-> << scale, Fixed >>,
        scaledW |-> << scaledW, Fixed >>,
        scaledH |-> << scaledH, Fixed >>,
        dx |-> << Minus(width * Fixed, scaledW), 2 * Fixed >>,
        dy |-> << Minus(height * Fixed, scaledH), 2 * Fixed >>]

\* "Calculate Layout": the video scaled by Math.max(width / vidW,
\* height / vidH) and centred, in the arithmetic of Number.  The sizes are in
\* layout units; the results are pairs << numerator, denominator >> (a
\* division by 2 is exact).
Layout(width, height, vidW, vidH) ==
    LET scale == Max(Quotient(width * Fixed, vidW), Quotient(height * Fixed, vidH))
        scaledW == Times(vidW, scale)
        scaledH == Times(vidH, scale)
    IN [scale |-> << scale, Fixed >>,
        scaledW |-> << scaledW, Fixed >>,
        scaledH |-> << scaledH, Fixed >>,
        dx |-> << Minus(width * Fixed, scaledW), 2 * Fixed >>,
        dy |-> << Minus(height * Fixed, scaledH), 2 * Fixed >>]

\* Recordings of other sizes than the viewport, in layout units: portrait,
\* 4:3, square, narrow, and sizes whose ratios to the output are rounded.
VideoSizes ==
    { << 16, 9 >>, << 9, 16 >>, << 12, 9 >>, << 5, 5 >>, << 1, 3 >>,
      << 19, 11 >>, << 25, 15 >> }

\* The layouts of both output geometries for the recordings considered,
\* computed once.
Layouts ==
    [g \in { << 16, 9 >>, << 9, 16 >> }, v \in VideoSizes \cup { Viewport } |->
        Layout(g[1], g[2], v[1], v[2])]

\* Nothing drawn yet.
NoFrame ==
    [t |-> Undef, width |-> 0, height |-> 0, layout |-> Layout(0, 0, 1, 1),
     hasCaption |-> FALSE, caption |-> << >>, captionY |-> Undef,
     hasSubtitle |-> FALSE, subtitle |-> "", subtitleY |-> Undef]

\* What drawFrame puts on the canvas at video time t: the background, the
\* video in its layout, the caption box (centred at boxY + boxH / 2) and, in
\* a full export, the subtitle.
Composite(tl, subs, t, format, isGifMode) ==
    LET width == IF format = "landscape" THEN 1280 ELSE 720
        height == IF format = "landscape" THEN 720 ELSE 1280
        evt == ExportCaption(tl, t)
        sub == IF isGifMode THEN 0 ELSE ActiveSubtitle(subs, t)
    IN [t |-> t, width |-> width, height |-> height,
        layout |-> Layouts[<< width \div LayoutUnit, height \div LayoutUnit >>,
                           videoSize],
        hasCaption |-> evt # 0,
        caption |-> IF evt = 0 THEN << >> ELSE tl[evt].text,
        captionY |-> IF evt = 0 THEN Undef
                     ELSE (IF format = "portrait" THEN 150 ELSE 60) + 25,
        hasSubtitle |-> sub # 0,
        subtitle |-> IF sub = 0 THEN "" ELSE subs[sub].text,
        subtitleY |-> IF sub = 0 THEN Undef
                      ELSE height - (IF format = "portrait" THEN 100 ELSE 50)]

\* ------------------------------------------------------------ export jobs
\* One handler invocation (handleExportVideo or handleGenerateMagicGifs) with
\* the renderToVideo run it is awaiting.  dur and vo are the duration and
\* isVoiceoverEnabled of the render the handler was created in (its closure).
IdleJob ==
    [kind |-> "none", format |-> "landscape", dur |-> 0, vo |-> FALSE,
     events |-> << >>, newGifs |-> << >>, phase |-> "idle",
     startTime |-> 0, endTime |-> 0, pos |-> 0, newFrame |-> FALSE,
     audioContext |-> "none", recorder |-> "none", error |-> "none",
     lastProgress |-> 0, frame |-> NoFrame, sourceStartedAt |-> "none"]

NoDownload == [name |-> "none", mounted |-> TRUE]

Init ==
    /\ videoSize = Viewport
    /\ timeline \in Timelines
    /\ subtitles \in SubtitleLists
    /\ audioBlob \in BOOLEAN
    /\ env \in Environments
    /\ mounted = TRUE
    /\ isPlaying = FALSE
    /\ currentTime = 0
    /\ duration = 0
    /\ currentCaption = 0
    /\ currentSubtitle = 0
    /\ isVoiceoverEnabled = TRUE
    /\ showExportMenu = FALSE
    /\ isExporting = FALSE
    /\ exportProgress = 0
    /\ generatedGifs = << >>
    /\ zoomStyle = InitialZoomStyle
    /\ vid = [paused |-> TRUE, currentTime |-> 0]
    /\ aud = [paused |-> TRUE, currentTime |-> 0]
    /\ pending = << >>
    /\ jobs = [h \in Handlers |-> IdleJob]
    /\ lastDownload = NoDownload

\* ---------------------------------------------------------- live preview
\* HTMLMediaElement.pause(): sets paused; the 'pause' event is queued only
\* when the element was playing.
Paused(m) == [m EXCEPT !.paused = TRUE]

\* HTMLMediaElement.play(): a play at the end of the media restarts it.
Played(m) ==
    [m EXCEPT !.paused = FALSE,
              !.currentTime = IF m.currentTime >= MediaEnd THEN 0 ELSE m.currentTime]

\* "Audio Toggle Effect": runs after a render in which isVoiceoverEnabled,
\* isPlaying or isExporting changed; vo, ip, ie are their new values.
AudioEffect(a, vo, ip, ie) ==
    IF ~audioBlob \/ ~mounted THEN a
    ELSE IF << vo, ip, ie >> = << isVoiceoverEnabled, isPlaying, isExporting >> THEN a
    ELSE IF ie THEN a
    ELSE IF vo /\ ip THEN (IF a.paused THEN Played(a) ELSE a)
    ELSE Paused(a)

HandleLoadedMetadata ==
    /\ mounted /\ duration = 0
    /\ duration' = MediaEnd
    /\ UNCHANGED << props, mounted, isPlaying, currentTime, currentCaption,
                    currentSubtitle, isVoiceoverEnabled, showExportMenu,
                    isExporting, exportProgress, generatedGifs, zoomStyle,
                    vid, aud, pending, jobs, lastDownload >>

\* handleTimeUpdate without its first line, "if (isExporting) return;".
TimeUpdateUnguarded ==
    /\ mounted
    /\ LET time == vid.currentTime IN
       /\ currentTime' = time
       /\ aud' = IF /\ audioBlob /\ isVoiceoverEnabled /\ ~aud.paused
                    /\ Abs(aud.currentTime - time) > DriftThreshold
                 THEN [aud EXCEPT !.currentTime = time]
                 ELSE aud
       /\ currentCaption' = ActiveEvent(timeline, time)
       /\ currentSubtitle' = ActiveSubtitle(subtitles, time)
       /\ zoomStyle' = ZoomStyleAt(timeline, time)
    /\ UNCHANGED << props, mounted, isPlaying, duration, isVoiceoverEnabled,
                    showExportMenu, isExporting, exportProgress, generatedGifs,
                    vid, pending, jobs, lastDownload >>

\* handleTimeUpdate with the audio snapped on every difference, however small.
TimeUpdateAlwaysSnap ==
    /\ mounted
    /\ IF isExporting
       THEN UNCHANGED << tickState, aud >>
       ELSE LET time == vid.currentTime IN
            /\ currentTime' = time
            /\ aud' = IF /\ audioBlob /\ isVoiceoverEnabled /\ ~aud.paused
                         /\ aud.currentTime # time
                      THEN [aud EXCEPT !.currentTime = time]
                      ELSE aud
            /\ currentCaption' = ActiveEvent(timeline, time)
            /\ currentSubtitle' = ActiveSubtitle(subtitles, time)
            /\ zoomStyle' = ZoomStyleAt(timeline, time)
    /\ UNCHANGED << props, mounted, isPlaying, duration, isVoiceoverEnabled,
                    showExportMenu, isExporting, exportProgress, generatedGifs,
                    vid, pending, jobs, lastDownload >>

HandleTimeUpdate ==
    /\ mounted
    /\ IF isExporting
       THEN UNCHANGED << tickState, aud >>
       ELSE LET time == vid.currentTime IN
            /\ currentTime' = time
            /\ aud' = IF /\ audioBlob /\ isVoiceoverEnabled /\ ~aud.paused
                         /\ Abs(aud.currentTime - time) > DriftThreshold
                      THEN [aud EXCEPT !.currentTime = time]
                      ELSE aud
            /\ currentCaption' = ActiveEvent(timeline, time)
            /\ currentSubtitle' = ActiveSubtitle(subtitles, time)
            /\ zoomStyle' = ZoomStyleAt(timeline, time)
    /\ UNCHANGED << props, mounted, isPlaying, duration, isVoiceoverEnabled,
                    showExportMenu, isExporting, exportProgress, generatedGifs,
                    vid, pending, jobs, lastDownload >>

\* handlePlay ('play'), handlePause ('pause' and 'waiting'); 'seeking' has
\* another listener.
HandleMediaEvent(e) ==
    IF isExporting \/ e = "seeking" THEN isPlaying ELSE (e = "play")

\* A 'seeking' listener without the test of isExporting.
HandleSeekWhileExporting(a) ==
    IF audioBlob THEN [a EXCEPT !.currentTime = vid.currentTime] ELSE a

\* handleSeek ('seeking')
HandleSeek(a) ==
    IF audioBlob /\ ~isExporting THEN [a EXCEPT !.currentTime = vid.currentTime]
    ELSE a

\* The video element is seeking: its 'seeking' event is still queued.
Seeking == \E k \in 1 .. Len(pending) : pending[k] = "seeking"

DispatchMediaEvent ==
    /\ mounted /\ pending # << >>
    /\ pending' = Tail(pending)
    /\ isPlaying' = HandleMediaEvent(Head(pending))
    /\ aud' = IF Head(pending) = "seeking" THEN HandleSeek(aud)
              ELSE AudioEffect(aud, isVoiceoverEnabled, isPlaying', isExporting)
    /\ UNCHANGED << props, mounted, tickState, duration, isVoiceoverEnabled,
                    showExportMenu, isExporting, exportProgress, generatedGifs,
                    vid, jobs, lastDownload >>

\* The decoder starves while the preview plays: 'waiting' is fired.
Waiting ==
    /\ mounted /\ ~vid.paused /\ Len(pending) < MaxPending
    /\ pending' = Append(pending, "waiting")
    /\ UNCHANGED << props, mounted, isPlaying, tickState, duration,
                    isVoiceoverEnabled, showExportMenu, isExporting,
                    exportProgress, generatedGifs, vid, aud, jobs, lastDownload >>

\* A togglePlay that sets isPlaying itself when it asks for playback, before
\* the request is settled.
TogglePlayOptimistic(accepted) ==
    /\ mounted
    /\ IF isExporting THEN UNCHANGED << vid, pending, isPlaying >>
       ELSE IF isPlaying
       THEN /\ UNCHANGED isPlaying
            /\ IF vid.paused THEN UNCHANGED << vid, pending >>
               ELSE /\ Len(pending) < MaxPending
                    /\ vid' = Paused(vid)
                    /\ pending' = Append(pending, "pause")
       ELSE /\ isPlaying' = TRUE
            /\ IF vid.paused /\ accepted
               THEN /\ Len(pending) < MaxPending
                    /\ vid' = Played(vid)
                    /\ pending' = Append(pending, "play")
               ELSE UNCHANGED << vid, pending >>
    /\ UNCHANGED << props, mounted, tickState, duration,
                    isVoiceoverEnabled, showExportMenu, isExporting,
                    exportProgress, generatedGifs, aud, jobs, lastDownload >>

\* togglePlay; accepted is whether the environment lets play() start playback.
TogglePlay(accepted) ==
    /\ mounted
    /\ IF isExporting THEN UNCHANGED << vid, pending >>
       ELSE IF isPlaying
       THEN IF vid.paused THEN UNCHANGED << vid, pending >>
            ELSE /\ Len(pending) < MaxPending
                 /\ vid' = Paused(vid)
                 /\ pending' = Append(pending, "pause")
       ELSE IF vid.paused /\ accepted
            THEN /\ Len(pending) < MaxPending
                 /\ vid' = Played(vid)
                 /\ pending' = Append(pending, "play")
            ELSE UNCHANGED << vid, pending >>
    /\ UNCHANGED << props, mounted, isPlaying, tickState, duration,
                    isVoiceoverEnabled, showExportMenu, isExporting,
                    exportProgress, generatedGifs, aud, jobs, lastDownload >>

\* The preview video plays on; at the end of the media the element pauses
\* itself and fires 'pause'.
VideoAdvance ==
    /\ mounted /\ ~vid.paused /\ vid.currentTime < MediaEnd /\ ~Seeking
    /\ LET t == Min(vid.currentTime + FrameStep, MediaEnd) IN
       IF t < MediaEnd
       THEN /\ vid' = [vid EXCEPT !.currentTime = t]
            /\ UNCHANGED pending
       ELSE /\ Len(pending) < MaxPending
            /\ vid' = [paused |-> TRUE, currentTime |-> t]
            /\ pending' = Append(pending, "pause")
    /\ UNCHANGED << props, mounted, isPlaying, tickState, duration,
                    isVoiceoverEnabled, showExportMenu, isExporting,
                    exportProgress, generatedGifs, aud, jobs, lastDownload >>

\* The narration plays on, and pauses at its end.
AudioAdvance ==
    /\ mounted /\ audioBlob /\ ~aud.paused /\ aud.currentTime < MediaEnd
    /\ LET t == Min(aud.currentTime + FrameStep, MediaEnd) IN
       aud' = [paused |-> t >= MediaEnd, currentTime |-> t]
    /\ UNCHANGED << props, mounted, isPlaying, tickState, duration,
                    isVoiceoverEnabled, showExportMenu, isExporting,
                    exportProgress, generatedGifs, vid, pending, jobs,
                    lastDownload >>

\* The preview video and the narration play on at the same rate, inside the
\* media.
ClocksAdvance ==
    /\ mounted /\ ~vid.paused /\ vid.currentTime + ClockStep < MediaEnd /\ ~Seeking
    /\ aud.paused \/ aud.currentTime + ClockStep < MediaEnd
    /\ vid' = [vid EXCEPT !.currentTime = @ + ClockStep]
    /\ aud' = IF aud.paused THEN aud ELSE [aud EXCEPT !.currentTime = @ + ClockStep]
    /\ UNCHANGED << props, mounted, isPlaying, tickState, duration,
                    isVoiceoverEnabled, showExportMenu, isExporting,
                    exportProgress, generatedGifs, pending, jobs, lastDownload >>

\* The positions the slider offers (whole seconds) inside the recording.
SeekTargets == { x \in 0 .. MediaEnd : x % 10 = 0 }

\* seek: the slider's onChange, to x.  Setting the video's currentTime starts
\* a seek, whose 'seeking' event is queued.
Seek(x) ==
    /\ mounted
    /\ IF isExporting THEN UNCHANGED << vid, aud, pending, currentTime >>
       ELSE /\ Len(pending) < MaxPending
            /\ vid' = [vid EXCEPT !.currentTime = x]
            /\ currentTime' = x
            /\ aud' = IF audioBlob THEN [aud EXCEPT !.currentTime = x] ELSE aud
            /\ pending' = Append(pending, "seeking")
    /\ UNCHANGED << props, mounted, isPlaying, currentCaption, currentSubtitle,
                    zoomStyle, duration, isVoiceoverEnabled, showExportMenu,
                    isExporting, exportProgress, generatedGifs, jobs, lastDownload >>

\* onClick of the timeline item of event i: only the video is repositioned.
TimelineJump(i) ==
    /\ mounted /\ Len(pending) < MaxPending
    /\ vid' = [vid EXCEPT !.currentTime = Min(timeline[i].startTime, MediaEnd)]
    /\ pending' = Append(pending, "seeking")
    /\ UNCHANGED << props, mounted, isPlaying, tickState, duration,
                    isVoiceoverEnabled, showExportMenu, isExporting,
                    exportProgress, generatedGifs, aud, jobs, lastDownload >>

\* The "AI Voiceover & Subtitles" checkbox (disabled without audioBlob).
ToggleVoiceover ==
    /\ mounted /\ audioBlob
    /\ isVoiceoverEnabled' = ~isVoiceoverEnabled
    /\ aud' = AudioEffect(aud, isVoiceoverEnabled', isPlaying, isExporting)
    /\ UNCHANGED << props, mounted, isPlaying, tickState, duration,
                    showExportMenu, isExporting, exportProgress, generatedGifs,
                    vid, pending, jobs, lastDownload >>

\* The Export button: setShowExportMenu(!showExportMenu)
ToggleExportMenu ==
    /\ mounted
    /\ showExportMenu' = ~showExportMenu
    /\ UNCHANGED << props, mounted, isPlaying, tickState, duration,
                    isVoiceoverEnabled, isExporting, exportProgress,
                    generatedGifs, vid, aud, pending, jobs, lastDownload >>

\* onRestart: App leaves the editing step and the Editor is unmounted.  Its
\* media elements leave the document (and pause), its listeners are removed
\* and its state setters become no-ops; handlers in flight keep running.
Restart ==
    /\ mounted
    /\ mounted' = FALSE
    /\ vid' = Paused(vid)
    /\ aud' = Paused(aud)
    /\ pending' = << >>
    /\ UNCHANGED << props, isPlaying, tickState, duration, isVoiceoverEnabled,
                    showExportMenu, isExporting, exportProgress, generatedGifs,
                    jobs, lastDownload >>

\* ----------------------------------------------------------- renderToVideo
\* Math.floor(((currentTime - startTime) / (endTime - startTime)) * 100), on
\* exact quotients.
\* The same measured from the end of the window instead of its start.
ProgressFromEnd(cur, startTime, endTime) ==
    IF endTime = startTime THEN Undef
    ELSE ((endTime - cur) * 100) \div (endTime - startTime)

\* The same rounded up instead of down.
ProgressRoundedUp(cur, startTime, endTime) ==
    IF endTime = startTime THEN Undef
    ELSE ((cur - startTime) * 100 + (endTime - startTime) - 1) \div (endTime - startTime)

Progress(cur, startTime, endTime) ==
    IF endTime = startTime THEN Undef
    ELSE ((cur - startTime) * 100) \div (endTime - startTime)

\* renderToVideo up to its first await: the offline video element is created
\* and load() is called; the run waits for 'loadedmetadata'.
RenderToVideo(j, startTime, endTime) ==
    [j EXCEPT !.phase = "metadata", !.startTime = startTime, !.endTime = endTime,
              !.pos = 0, !.newFrame = FALSE, !.audioContext = "none",
              !.recorder = "none", !.error = "none", !.frame = NoFrame,
              !.sourceStartedAt = "none"]

\* "3. Media Recorder Setup" to the await of offlineVideo.play(): the
\* MediaRecorder constructor throws when the mime type is not supported.
SetupRecorder(j) ==
    IF ~env.vp9
    THEN [j EXCEPT !.error = "encoder", !.phase = "stuck"]
    ELSE [j EXCEPT !.recorder = "recording", !.pos = Min(j.startTime, MediaEnd),
                   !.phase = "play"]

\* An audio setup that does not look at the mode.
AfterMetadataInAnyMode(j) ==
    IF j.vo /\ audioBlob
    THEN [j EXCEPT !.audioContext = "running", !.phase = "decode"]
    ELSE SetupRecorder(j)

\* "2. Audio Setup": only a full export with the voiceover on and a narration
\* blob creates an AudioContext and awaits the decoding.
AfterMetadata(j) ==
    IF j.kind = "full" /\ j.vo /\ audioBlob
    THEN [j EXCEPT !.audioContext = "running", !.phase = "decode"]
    ELSE SetupRecorder(j)

\* One call of a drawFrame that draws the subtitle as the preview does, only
\* while the voiceover is enabled.
DrawFrameAsPreview(j) ==
    IF j.pos >= j.endTime \/ j.pos >= MediaEnd
    THEN [j EXCEPT !.recorder = "inactive", !.phase = "stopping"]
    ELSE [j EXCEPT !.phase = "render", !.newFrame = FALSE,
                   !.frame = Composite(timeline, subtitles, j.pos, j.format,
                                       j.kind = "gif" \/ ~isVoiceoverEnabled),
                   !.lastProgress = IF j.kind = "full"
                                    THEN Progress(j.pos, j.startTime, j.endTime)
                                    ELSE j.lastProgress]

\* One call of drawFrame.
DrawFrame(j) ==
    IF j.pos >= j.endTime \/ j.pos >= MediaEnd
    THEN [j EXCEPT !.recorder = "inactive", !.phase = "stopping"]
    ELSE [j EXCEPT !.phase = "render", !.newFrame = FALSE,
                   !.frame = Composite(timeline, subtitles, j.pos, j.format,
                                       j.kind = "gif"),
                   !.lastProgress = IF j.kind = "full"
                                    THEN Progress(j.pos, j.startTime, j.endTime)
                                    ELSE j.lastProgress]

\* setExportProgress in drawFrame: a no-op once the Editor is unmounted.
ProgressAfter(j) ==
    IF mounted /\ j.kind = "full" /\ j.phase = "render" THEN j.lastProgress
    ELSE exportProgress

jobVars == << props, mounted, isPlaying, tickState, duration, isVoiceoverEnabled,
              showExportMenu, isExporting, generatedGifs, vid, aud, pending,
              lastDownload >>

\* offlineVideo fires 'loadedmetadata'.
MetadataLoaded(h) ==
    /\ jobs[h].phase = "metadata" /\ jobs[h].error = "none"
    /\ jobs' = [jobs EXCEPT ![h] = AfterMetadata(jobs[h])]
    /\ UNCHANGED << jobVars, exportProgress >>

\* offlineVideo fires 'error' instead: nothing listens, the await never ends.
MetadataError(h) ==
    /\ jobs[h].phase = "metadata" /\ jobs[h].error = "none"
    /\ jobs' = [jobs EXCEPT ![h].error = "media"]
    /\ UNCHANGED << jobVars, exportProgress >>

\* decodeAudioData resolves: the buffer source is started at the offset,
\* source.start(0, startTime), in the phase the run is in (the audio setup,
\* with no recorder yet), and the recorder is set up.
DecodeDone(h) ==
    /\ jobs[h].phase = "decode"
    /\ jobs' = [jobs EXCEPT ![h] =
                  SetupRecorder([jobs[h] EXCEPT !.sourceStartedAt = jobs[h].phase])]
    /\ UNCHANGED << jobVars, exportProgress >>

\* arrayBuffer() or decodeAudioData rejects: the async executor throws, the
\* promise renderToVideo returned is never settled.
DecodeFail(h) ==
    /\ jobs[h].phase = "decode"
    /\ jobs' = [jobs EXCEPT ![h].error = "decode", ![h].phase = "stuck"]
    /\ UNCHANGED << jobVars, exportProgress >>

\* offlineVideo.play() resolves and drawFrame() is called for the first time.
PlayResolved(h) ==
    /\ jobs[h].phase = "play"
    /\ LET j == jobs[h]
           started == [j EXCEPT !.pos = IF j.pos >= MediaEnd THEN 0 ELSE j.pos]
       IN /\ jobs' = [jobs EXCEPT ![h] = DrawFrame(started)]
          /\ exportProgress' = ProgressAfter(jobs'[h])
    /\ UNCHANGED jobVars

\* offlineVideo.play() rejects: as for DecodeFail, with the recorder started.
PlayRejected(h) ==
    /\ jobs[h].phase = "play"
    /\ jobs' = [jobs EXCEPT ![h].error = "play", ![h].phase = "stuck"]
    /\ UNCHANGED << jobVars, exportProgress >>

\* The offline video plays on and presents its next frame; at the end of the
\* media it has ended and presents no further frame.
OfflineAdvance(h) ==
    /\ jobs[h].phase = "render" /\ jobs[h].pos < MediaEnd
    /\ LET t == Min(jobs[h].pos + FrameStep, MediaEnd) IN
       jobs' = [jobs EXCEPT ![h].pos = t,
                            ![h].newFrame = (t < MediaEnd) \/ jobs[h].newFrame]
    /\ UNCHANGED << jobVars, exportProgress >>

\* The callback drawFrame registered runs: requestVideoFrameCallback calls it
\* when a new frame has been presented, requestAnimationFrame at the next
\* repaint.
DrawFrameCallback(h) ==
    /\ jobs[h].phase = "render"
    /\ env.rvfc => jobs[h].newFrame
    /\ jobs' = [jobs EXCEPT ![h] = DrawFrame(jobs[h])]
    /\ exportProgress' = ProgressAfter(jobs'[h])
    /\ UNCHANGED jobVars

\* ---------------------------------------------------------------- handlers
\* The handler invocations that have not returned.
Running == { h \in Handlers : jobs[h].kind # "none" }
FreeSlots == Handlers \ Running
FirstFree == CHOOSE h \in FreeSlots : \A k \in FreeSlots : h <= k

IsWhitespace(c) == c = " "

\* evt.text.replace(/\s/g, '-'): every whitespace character becomes a '-'
ReplaceEachWhitespace(text, inRun) ==
    [i \in 1 .. Len(text) |-> IF IsWhitespace(text[i]) THEN "-" ELSE text[i]]

\* evt.text.replace(/\s+/g, '-'): every maximal run of whitespace becomes one '-'
RECURSIVE ReplaceWhitespace(_, _)
ReplaceWhitespace(text, inRun) ==
    IF text = << >> THEN << >>
    ELSE IF IsWhitespace(Head(text))
         THEN (IF inRun THEN << >> ELSE << "-" >>) \o ReplaceWhitespace(Tail(text), TRUE)
         ELSE << Head(text) >> \o ReplaceWhitespace(Tail(text), FALSE)

GifName(evt) == << "GIF-" >> \o ReplaceWhitespace(evt.text, FALSE) \o << ".webm" >>

\* timeline.filter(t => t.type !== 'zoom').slice(0, 3), as timeline indices
RECURSIVE NonZoomFrom(_, _)
NonZoomFrom(tl, i) ==
    IF i > Len(tl) THEN << >>
    ELSE IF tl[i].type # "zoom" THEN << i >> \o NonZoomFrom(tl, i + 1)
    ELSE NonZoomFrom(tl, i + 1)

TopEvents(tl) ==
    LET all == NonZoomFrom(tl, 1) IN SubSeq(all, 1, Min(MaxClips, Len(all)))

\* The clip of handleGenerateMagicGifs for event index i, started in run j.
ClipRun(j, i) ==
    RenderToVideo(j, timeline[i].startTime,
                  Min(timeline[i].startTime + ClipLength, j.dur))

FullEnd(d) == IF d = 0 THEN DefaultDuration ELSE d

\* handleExportVideo(format), to the first await of renderToVideo.
HandleExportVideo(format) ==
    /\ mounted /\ showExportMenu /\ FreeSlots # {}
    /\ vid.paused \/ Len(pending) < MaxPending
    /\ isExporting' = TRUE
    /\ showExportMenu' = FALSE
    /\ isPlaying' = FALSE
    /\ vid' = Paused(vid)
    /\ pending' = IF vid.paused THEN pending ELSE Append(pending, "pause")
    /\ aud' = IF audioBlob THEN Paused(aud) ELSE aud
    /\ jobs' = [jobs EXCEPT ![FirstFree] =
                  RenderToVideo([IdleJob EXCEPT !.kind = "full", !.format = format,
                                                !.dur = duration,
                                                !.vo = isVoiceoverEnabled],
                                0, FullEnd(duration))]
    /\ UNCHANGED << props, mounted, tickState, duration, isVoiceoverEnabled,
                    exportProgress, generatedGifs, lastDownload >>

\* handleGenerateMagicGifs, to the first await of renderToVideo (or to its end
\* when no event is eligible).
HandleGenerateMagicGifs ==
    /\ mounted /\ showExportMenu /\ FreeSlots # {}
    /\ LET events == TopEvents(timeline) IN
       /\ isExporting' = (events # << >>)
       /\ jobs' = IF events = << >> THEN jobs
                  ELSE [jobs EXCEPT ![FirstFree] =
                          ClipRun([IdleJob EXCEPT !.kind = "gif", !.dur = duration,
                                                  !.vo = isVoiceoverEnabled,
                                                  !.events = events],
                                  Head(events))]
    /\ showExportMenu' = FALSE
    /\ isPlaying' = FALSE
    /\ generatedGifs' = << >>
    /\ aud' = AudioEffect(aud, isVoiceoverEnabled, isPlaying', isExporting')
    /\ UNCHANGED << props, mounted, tickState, duration, isVoiceoverEnabled,
                    exportProgress, vid, pending, lastDownload >>

\* recorder.onstop: the blob is assembled, the audio context closed and the
\* promise resolved; the awaiting handler continues to its next await or end.
RecorderOnStop(h) ==
    /\ jobs[h].phase = "stopping"
    /\ LET j == jobs[h] IN
       IF j.kind = "full"
       THEN /\ lastDownload' = [name |-> j.format, mounted |-> mounted]
            /\ isExporting' = IF mounted THEN FALSE ELSE isExporting
            /\ exportProgress' = IF mounted THEN 0 ELSE exportProgress
            /\ jobs' = [jobs EXCEPT ![h] = IdleJob]
            /\ UNCHANGED generatedGifs
       ELSE LET newGifs == Append(j.newGifs, GifName(timeline[Head(j.events)]))
                rest == Tail(j.events)
            IN IF rest # << >>
               THEN /\ jobs' = [jobs EXCEPT ![h] =
                                 ClipRun([j EXCEPT !.newGifs = newGifs,
                                                   !.events = rest], Head(rest))]
                    /\ UNCHANGED << isExporting, generatedGifs, exportProgress,
                                    lastDownload >>
               ELSE /\ jobs' = [jobs EXCEPT ![h] = IdleJob]
                    /\ generatedGifs' = IF mounted THEN newGifs ELSE generatedGifs
                    /\ isExporting' = IF mounted THEN FALSE ELSE isExporting
                    /\ UNCHANGED << exportProgress, lastDownload >>
    /\ aud' = AudioEffect(aud, isVoiceoverEnabled, isPlaying, isExporting')
    /\ UNCHANGED << props, mounted, isPlaying, tickState, duration,
                    isVoiceoverEnabled, showExportMenu, vid, pending >>

\* The Close button of the "Magic GIFs Ready" panel: setGeneratedGifs([])
CloseGifs ==
    /\ mounted /\ ~isExporting /\ generatedGifs # << >>
    /\ generatedGifs' = << >>
    /\ UNCHANGED << props, mounted, isPlaying, tickState, duration,
                    isVoiceoverEnabled, showExportMenu, isExporting,
                    exportProgress, vid, aud, pending, jobs, lastDownload >>

\* ------------------------------------------------------------ specification
\* The browser events of the renderToVideo run of handler h.
JobStep(h) ==
    \/ MetadataLoaded(h)
    \/ MetadataError(h)
    \/ DecodeDone(h)
    \/ DecodeFail(h)
    \/ PlayResolved(h)
    \/ PlayRejected(h)
    \/ OfflineAdvance(h)
    \/ DrawFrameCallback(h)
    \/ RecorderOnStop(h)

\* The export engine: the user opens the export menu, starts exports and
\* highlight batches (also while one is in flight: no handler checks
\* isExporting, and the header's buttons stay keyboard-operable under the
\* overlay), closes the result panel or leaves the editor; the preview is
\* left alone.
Next ==
    \/ HandleLoadedMetadata
    \/ ToggleExportMenu
    \/ Restart
    \/ CloseGifs
    \/ \E format \in { "landscape", "portrait" } : HandleExportVideo(format)
    \/ HandleGenerateMagicGifs
    \/ \E h \in Handlers : JobStep(h)

Spec == Init /\ [][Next]_vars

\* The same, with the browser's scheduling: an event that stays due (a loaded
\* resource, a settled promise, a presented frame, a registered callback) is
\* eventually delivered.  Nothing obliges the user to act.
Fairness ==
    \A h \in Handlers :
        /\ WF_vars(MetadataLoaded(h))
        /\ WF_vars(DecodeDone(h))
        /\ WF_vars(PlayResolved(h))
        /\ WF_vars(OfflineAdvance(h))
        /\ WF_vars(DrawFrameCallback(h))
        /\ WF_vars(RecorderOnStop(h))

\* The export engine with exports started one at a time and the editor kept
\* open.
NextSerial ==
    \/ HandleLoadedMetadata
    \/ ToggleExportMenu
    \/ CloseGifs
    \/ \E format \in { "landscape", "portrait" } :
          Running = {} /\ HandleExportVideo(format)
    \/ Running = {} /\ HandleGenerateMagicGifs
    \/ \E h \in Handlers : JobStep(h)

FairSpec == Init /\ [][NextSerial]_vars /\ Fairness

\* The export engine over recordings of these sizes, in a browser where
\* exports run to their end; the user also toggles the voiceover.
InitLayout ==
    /\ videoSize \in VideoSizes
    /\ timeline \in Timelines \cup { CaptionLast }
    /\ subtitles \in SubtitleLists
    /\ audioBlob \in BOOLEAN
    /\ env = [rvfc |-> FALSE, vp9 |-> TRUE, otherCodec |-> TRUE]
    /\ mounted = TRUE
    /\ isPlaying = FALSE
    /\ currentTime = 0
    /\ duration = 0
    /\ currentCaption = 0
    /\ currentSubtitle = 0
    /\ isVoiceoverEnabled = TRUE
    /\ showExportMenu = FALSE
    /\ isExporting = FALSE
    /\ exportProgress = 0
    /\ generatedGifs = << >>
    /\ zoomStyle = InitialZoomStyle
    /\ vid = [paused |-> TRUE, currentTime |-> 0]
    /\ aud = [paused |-> TRUE, currentTime |-> 0]
    /\ pending = << >>
    /\ jobs = [h \in Handlers |-> IdleJob]
    /\ lastDownload = NoDownload

NextLayout ==
    \/ NextSerial
    \/ ToggleVoiceover

SpecLayout == InitLayout /\ [][NextLayout]_vars

\* The playback controls beside the export engine: the user presses play,
\* moves the slider and clicks timeline items, before and during exports that
\* are started one at a time.
InitControls == Init /\ env.rvfc = FALSE /\ audioBlob = TRUE

NextControls ==
    \/ NextSerial
    \/ \E accepted \in BOOLEAN : TogglePlay(accepted)
    \/ \E x \in SeekTargets : Seek(x)
    \/ \E i \in 1 .. Len(timeline) : TimelineJump(i)
    \/ DispatchMediaEvent

SpecControls == InitControls /\ [][NextControls]_vars

\* The live preview with exports: the user plays, pauses and toggles the
\* voiceover, the media clocks advance and the decoder may starve, and exports
\* are started one at a time.
NextPreview ==
    \/ NextSerial
    \/ HandleTimeUpdate
    \/ DispatchMediaEvent
    \/ Waiting
    \/ \E accepted \in BOOLEAN : TogglePlay(accepted)
    \/ VideoAdvance
    \/ AudioAdvance
    \/ ToggleVoiceover

SpecPreview == Init /\ [][NextPreview]_vars

\* The live preview alone: no export is started.
NextLive ==
    \/ HandleLoadedMetadata
    \/ HandleTimeUpdate
    \/ DispatchMediaEvent
    \/ Waiting
    \/ \E accepted \in BOOLEAN : TogglePlay(accepted)
    \/ VideoAdvance
    \/ AudioAdvance
    \/ ToggleVoiceover

SpecLive == Init /\ [][NextLive]_vars

\* The synchronizer: a playing preview with a narration, observed from a
\* moment at which its two clocks may have drifted apart.  The clocks advance
\* together, 'timeupdate' fires, and the user toggles the voiceover.
InitSync ==
    /\ videoSize = Viewport
    /\ timeline \in Timelines
    /\ subtitles \in SubtitleLists
    /\ audioBlob = TRUE
    /\ env \in { e \in Environments : e.rvfc /\ e.vp9 }
    /\ mounted = TRUE
    /\ isPlaying = TRUE
    /\ currentTime = 0
    /\ duration = MediaEnd
    /\ currentCaption = 0
    /\ currentSubtitle = 0
    /\ isVoiceoverEnabled = TRUE
    /\ showExportMenu = FALSE
    /\ isExporting = FALSE
    /\ exportProgress = 0
    /\ generatedGifs = << >>
    /\ zoomStyle = InitialZoomStyle
    /\ \E v \in 0 .. MaxSeed : vid = [paused |-> FALSE, currentTime |-> v]
    /\ \E a \in 0 .. MaxSeed : aud = [paused |-> FALSE, currentTime |-> a]
    /\ pending = << >>
    /\ jobs = [h \in Handlers |-> IdleJob]
    /\ lastDownload = NoDownload

NextSync ==
    \/ HandleTimeUpdate
    \/ ClocksAdvance
    \/ ToggleVoiceover

SpecSync == InitSync /\ [][NextSync]_vars

\* Seeking: a playing preview whose two clocks agree.  The clocks advance
\* together, 'timeupdate' fires, the user drags the slider and clicks
\* timeline items, and the video's queued events are delivered.  Only a seek
\* can set the clocks apart.
InitSeek == InitSync /\ vid.currentTime = aud.currentTime

NextSeek ==
    \/ HandleTimeUpdate
    \/ ClocksAdvance
    \/ \E x \in SeekTargets : Seek(x)
    \/ \E i \in 1 .. Len(timeline) : TimelineJump(i)
    \/ DispatchMediaEvent

SpecSeek == InitSeek /\ [][NextSeek]_vars

\* Ingestion: App awaits analyzeVideoAndGenerateTimeline, which sanitizes the
\* lists of the model's response, and then mounts the Editor with them.
AnalyzeVideo ==
    /\ ~mounted
    /\ timeline' = SanitizeTimeline(timeline)
    /\ subtitles' = SortByStart(subtitles)
    /\ mounted' = TRUE
    /\ UNCHANGED << videoSize, audioBlob, env, isPlaying, tickState, duration,
                    isVoiceoverEnabled, showExportMenu, isExporting,
                    exportProgress, generatedGifs, vid, aud, pending, jobs,
                    lastDownload >>

\* Before the analysis: timeline and subtitles hold the lists of the response.
InitIngest ==
    /\ videoSize = Viewport
    /\ timeline \in RawTimelines
    /\ subtitles \in RawSubtitleLists
    /\ audioBlob = FALSE
    /\ env \in { e \in Environments : e.rvfc /\ e.vp9 }
    /\ mounted = FALSE
    /\ isPlaying = FALSE
    /\ currentTime = 0
    /\ duration = 0
    /\ currentCaption = 0
    /\ currentSubtitle = 0
    /\ isVoiceoverEnabled = TRUE
    /\ showExportMenu = FALSE
    /\ isExporting = FALSE
    /\ exportProgress = 0
    /\ generatedGifs = << >>
    /\ zoomStyle = InitialZoomStyle
    /\ vid = [paused |-> TRUE, currentTime |-> 0]
    /\ aud = [paused |-> TRUE, currentTime |-> 0]
    /\ pending = << >>
    /\ jobs = [h \in Handlers |-> IdleJob]
    /\ lastDownload = NoDownload

\* Ingestion, then the preview played over the sanitized lists.
NextIngest ==
    \/ AnalyzeVideo
    \/ HandleTimeUpdate
    \/ DispatchMediaEvent
    \/ (\E accepted \in BOOLEAN : TogglePlay(accepted))
    \/ VideoAdvance

SpecIngest == InitIngest /\ [][NextIngest]_vars

\* ------------------------------------------------------------------ claims
\* C1: at most one export job is running at any time: no second
\* renderToVideo run is in progress while another is.
AtMostOneExportRunning == Cardinality(Running) <= 1

\* C2: whenever an export or a highlight batch is running (isExporting), the
\* live preview video and the narration audio are paused.
ExportExcludesPreview == isExporting => vid.paused /\ aud.paused

\* C3: while isExporting, a 'timeupdate' leaves currentTime, currentCaption,
\* currentSubtitle, zoomStyle and the audio element unchanged, and a 'play',
\* 'pause' or 'waiting' event leaves isPlaying unchanged.
TicksSuspendedWhileExporting ==
    [][isExporting =>
         /\ HandleTimeUpdate => UNCHANGED << tickState, aud >>
         /\ DispatchMediaEvent => isPlaying' = isPlaying]_vars

\* A tick is due that would move currentTime, and a 'play' event is queued
\* that would set isPlaying, while an export runs.
TickDueWhileExporting ==
    /\ isExporting /\ mounted
    /\ vid.currentTime # currentTime
    /\ pending # << >> /\ Head(pending) = "play" /\ ~isPlaying

\* C4: every renderToVideo run that started rendering stops: its recorder is
\* stopped, at endTime or at the end of the source.
RenderingRunStops ==
    \A h \in Handlers : (jobs[h].phase = "render") ~> (jobs[h].phase = "stopping")

\* C5: the values the render loop of one full export passes to
\* setExportProgress never decrease, and each becomes exportProgress.
ProgressNonDecreasing ==
    [][\A h \in Handlers :
          (/\ jobs[h].kind = "full"
           /\ PlayResolved(h) \/ DrawFrameCallback(h)
           /\ jobs'[h].phase = "render")
          => /\ jobs'[h].lastProgress >= jobs[h].lastProgress
             /\ mounted => exportProgress' = jobs'[h].lastProgress]_vars

\* The render loop of a full export has raised the progress above 0.
ProgressRaised ==
    \E h \in Handlers :
        jobs[h].kind = "full" /\ jobs[h].phase = "render" /\ jobs[h].lastProgress > 0

\* C6: exportProgress is 100 in the state where a full export completes (its
\* render loop has stopped the recorder).
ProgressHundredAtCompletion ==
    \A h \in Handlers :
        (mounted /\ jobs[h].kind = "full" /\ jobs[h].phase = "stopping")
        => exportProgress = 100

\* C7: a cancelled export (one whose editor was left while it ran) never hands
\* an artifact to the user.
NoArtifactAfterCancel == lastDownload.mounted

\* C8: after an export failure the system returns to idle: isExporting false
\* and exportProgress 0.
FailureReturnsToIdle ==
    \A h \in Handlers :
        (jobs[h].error # "none") ~> (~isExporting /\ exportProgress = 0)

\* C9: when the source metadata fails to load, the run ends and its handler
\* returns instead of waiting forever.
MediaLoadErrorSurfaced ==
    \A h \in Handlers : (jobs[h].error = "media") ~> (jobs[h].kind = "none")

\* C10: when decoding the narration fails, the export still runs to
\* completion.
AudioDecodeFailureNonFatal ==
    \A h \in Handlers : (jobs[h].error = "decode") ~> (jobs[h].phase = "stopping")

\* C11: a run fails for want of an encoder only when the browser's
\* MediaRecorder supports no video type at all: with a fallback type
\* available the encoder is set up.
EncoderFailsOnlyWithoutCodec ==
    \A h \in Handlers : jobs[h].error = "encoder" => ~env.vp9 /\ ~env.otherCodec

\* The narration is enabled and playing in the live preview.
NarrationLive ==
    mounted /\ ~isExporting /\ audioBlob /\ isVoiceoverEnabled /\ ~aud.paused

\* C12: a live-preview tick with the narration enabled and playing sets the
\* audio clock to the video time when they differ by more than 0.3 s and
\* leaves the audio element alone otherwise; it never changes the video
\* element; after it the clocks differ by at most 0.3 s.
DriftCorrectedOnTick ==
    [][(NarrationLive /\ HandleTimeUpdate) =>
         /\ vid' = vid
         /\ IF \/ aud.currentTime - vid.currentTime > 3
               \/ vid.currentTime - aud.currentTime > 3
            THEN aud' = [aud EXCEPT !.currentTime = vid.currentTime]
            ELSE aud' = aud
         /\ aud'.currentTime - vid'.currentTime <= 3
         /\ vid'.currentTime - aud'.currentTime <= 3]_vars

\* Ticks have run, and one is due with the narration 0.4 s behind the video.
SnapDue ==
    NarrationLive /\ currentTime > 0 /\ vid.currentTime - aud.currentTime = 4

\* C13: with the narration 0.5 s ahead of the video, the tick snaps it onto
\* the video time; while the clocks differ by less than 0.3 s and advance at
\* the same rate, their difference stays what it is and no tick corrects.
SnapOnceThenInSync ==
    [][/\ (NarrationLive /\ aud.currentTime - vid.currentTime = 5 /\ HandleTimeUpdate)
          => aud' # aud /\ aud'.currentTime = vid'.currentTime
       /\ (/\ NarrationLive
           /\ aud.currentTime - vid.currentTime < 3
           /\ vid.currentTime - aud.currentTime < 3
           /\ HandleTimeUpdate \/ ClocksAdvance)
          => /\ aud'.currentTime - vid'.currentTime = aud.currentTime - vid.currentTime
             /\ HandleTimeUpdate => aud' = aud]_vars

\* Ticks have run, and one is due with the narration 0.5 s ahead of the video.
AudioHalfSecondAhead ==
    NarrationLive /\ currentTime > 0 /\ aud.currentTime - vid.currentTime = 5

\* The indices of list whose entry's interval, both ends included, holds t.
Holding(list, t) ==
    { i \in 1 .. Len(list) : list[i].startTime <= t /\ t <= list[i].endTime }

OfType(list, type) == { i \in 1 .. Len(list) : list[i].type = type }

\* C14: at every time t each activity query (the preview's active event,
\* active zoom and active subtitle, the export's caption and subtitle)
\* returns nothing or an entry that qualifies and holds t, and nothing only
\* when no qualifying entry holds t, on every list the Editor is mounted
\* with; a tick stores the results for the video time.
ActivityQueriesSound ==
    [][/\ AnalyzeVideo => \A t \in 0 .. MediaEnd :
            LET Sound(r, among) == IF r = 0 THEN among = {} ELSE r \in among IN
            /\ Sound(ActiveEvent(timeline', t), Holding(timeline', t))
            /\ Sound(ActiveZoom(timeline', t),
                     Holding(timeline', t) \cap OfType(timeline', "zoom"))
            /\ Sound(ExportCaption(timeline', t),
                     Holding(timeline', t) \cap OfType(timeline', "caption"))
            /\ Sound(ActiveSubtitle(subtitles', t), Holding(subtitles', t))
       /\ (HandleTimeUpdate /\ ~isExporting) =>
            /\ IF currentCaption' = 0 THEN Holding(timeline, vid.currentTime) = {}
               ELSE currentCaption' \in Holding(timeline, vid.currentTime)
            /\ IF currentSubtitle' = 0 THEN Holding(subtitles, vid.currentTime) = {}
               ELSE currentSubtitle' \in Holding(subtitles, vid.currentTime)]_vars

\* A tick at the end time of an event and of a subtitle has stored both.
EntriesShownAtTheirEnd ==
    /\ mounted /\ currentTime > 0 /\ currentCaption # 0 /\ currentSubtitle # 0
    /\ timeline[currentCaption].endTime = currentTime
    /\ subtitles[currentSubtitle].endTime = currentTime

MinDurationEnforced ==
    [][AnalyzeVideo =>
         \A i \in 1 .. Len(timeline') :
             timeline'[i].endTime - timeline'[i].startTime >= 20]_vars

\* C17: sanitizing the sanitized lists again changes nothing.
SanitizationIdempotent ==
    [][AnalyzeVideo =>
         /\ SanitizeTimeline(timeline') = timeline'
         /\ SortByStart(subtitles') = subtitles']_vars

\* The Editor is mounted with two events that start together and end apart,
\* and with two subtitles that start together, each pair in the order of the
\* response.
SanitizedWithTies ==
    /\ mounted /\ Len(timeline) = 2
    /\ timeline[1].startTime = timeline[2].startTime
    /\ timeline[1].id = "r1" /\ timeline[2].id = "r2"
    /\ timeline[1].endTime # timeline[2].endTime
    /\ Len(subtitles) = 3 /\ subtitles[2].text = "b" /\ subtitles[3].text = "a"

\* C18: the timeline and the subtitles returned are ascending by startTime
\* and hold exactly the entries of the response: as many, with the same ids
\* and texts.
ReturnedListsSorted ==
    [][AnalyzeVideo =>
         /\ \A i, j \in 1 .. Len(timeline') :
               i < j => timeline'[i].startTime <= timeline'[j].startTime
         /\ \A i, j \in 1 .. Len(subtitles') :
               i < j => subtitles'[i].startTime <= subtitles'[j].startTime
         /\ Len(timeline') = Len(timeline) /\ Len(subtitles') = Len(subtitles)
         /\ \A i \in 1 .. Len(timeline) : \E j \in 1 .. Len(timeline') :
               /\ timeline'[j].id = timeline[i].id
               /\ timeline'[j].text = timeline[i].text
               /\ timeline'[j].type = timeline[i].type
               /\ timeline'[j].startTime = timeline[i].startTime
         /\ \A i \in 1 .. Len(subtitles) : \E j \in 1 .. Len(subtitles') :
               subtitles'[j] = subtitles[i]]_vars

\* The Editor is mounted with lists whose entries the sort has reordered.
ReorderedLists ==
    /\ mounted /\ Len(timeline) = 2
    /\ timeline[1].id = "r2" /\ timeline[2].id = "r1"
    /\ Len(subtitles) = 2 /\ subtitles[1].text = "Welcome"

\* C19: a highlight batch none of whose runs fails to load, encode or play
\* completes: isExporting is false again and the panel holds one clip for
\* each of the first three events that are not zooms, fewer when the
\* timeline has fewer.
HighlightBatchCompletes ==
    \A h \in Handlers :
        (jobs[h].kind = "gif")
        ~> \/ jobs[h].error # "none"
           \/ /\ jobs[h].kind = "none" /\ ~isExporting
              /\ Len(generatedGifs) =
                     Min(3, Cardinality(OfType(timeline, "caption")
                                        \cup OfType(timeline, "highlight")))

\* C20: the window of every highlight clip is
\* [event.startTime, min(event.startTime + 3, media duration)].
ClipWindowTruncatedAtMediaEnd ==
    \A h \in Handlers :
        jobs[h].kind = "gif" =>
            LET evt == timeline[Head(jobs[h].events)] IN
            /\ jobs[h].startTime = evt.startTime
            /\ jobs[h].endTime = Min(evt.startTime + 30, MediaEnd)

\* The timeline without its zoom events.
WithoutZoom(tl) == SelectSeq(tl, LAMBDA e : e.type # "zoom")

\* A zoom event that spans the whole recording.
ZoomThroughout ==
    Ev("zz", 0, MediaEnd, << "z", "z" >>, "zoom", TRUE, 10, 90, 20)

\* C21: zoom events do not influence what an export draws: the frame a run
\* has composited is the frame the same run composites, at the same
\* timestamp, from the timeline with its zoom events removed, and from the
\* timeline with one more zoom event placed in front of it.
ZoomAbsentFromExport ==
    \A h \in Handlers :
        LET j == jobs[h] IN
        j.frame.t # Undef =>
            /\ j.frame = Composite(WithoutZoom(timeline), subtitles, j.frame.t,
                                   j.format, j.kind = "gif")
            /\ j.frame = Composite(<< ZoomThroughout >> \o timeline, subtitles,
                                   j.frame.t, j.format, j.kind = "gif")

\* A run has composited a frame at a time at which a zoom event is active.
FrameInsideZoom ==
    \E h \in Handlers :
        /\ jobs[h].frame.t # Undef
        /\ ActiveZoom(timeline, jobs[h].frame.t) # 0

ZoomFollowsActiveEvent ==
    [][(HandleTimeUpdate /\ ~isExporting /\ ActiveZoom(timeline, vid.currentTime) # 0) =>
         LET z == timeline[ActiveZoom(timeline, vid.currentTime)] IN
         /\ zoomStyle'.origin = << Default(z.x, DefaultZoomXY), Default(z.y, DefaultZoomXY) >>
         /\ zoomStyle'.scale = Default(z.zoomScale, DefaultZoomScale)]_vars

\* C24: in the live preview a seek repositions both clocks: the slider puts
\* the video and the narration at x at once; a timeline-item jump puts the
\* video at the event's start and the narration follows when 'seeking' is
\* handled; and, the clocks having agreed before the seek, no tick
\* repositions the narration (the drift corrector does not fire because of
\* the seek).
SeekRepositionsBothClocks ==
    [][~isExporting =>
         /\ \A x \in SeekTargets :
              Seek(x) => vid'.currentTime = x /\ aud'.currentTime = x
         /\ \A i \in 1 .. Len(timeline) :
              TimelineJump(i) => vid'.currentTime = timeline[i].startTime
         /\ (DispatchMediaEvent /\ Head(pending) = "seeking") =>
              aud'.currentTime = vid'.currentTime
         /\ HandleTimeUpdate => aud' = aud]_vars

\* C25: buffering is transient: when the live preview's video plays on (its
\* data has resumed) and every event it fired has been handled, the
\* synchronizer is in Playing, without a new user action.
BufferingTransient ==
    [][(VideoAdvance /\ ~isExporting /\ pending = << >>) => isPlaying]_vars

\* The positions of a text that are kept when runs of whitespace collapse:
\* the characters that are not whitespace and the first one of every run.
KeptPositions(text) ==
    { i \in 1 .. Len(text) :
        ~IsWhitespace(text[i]) \/ i = 1 \/ ~IsWhitespace(text[i - 1]) }

\* The text with every maximal run of whitespace replaced by one '-'.
Collapsed(text) ==
    LET kept == KeptPositions(text) IN
    [k \in 1 .. Cardinality(kept) |->
        LET i == CHOOSE p \in kept : Cardinality({ q \in kept : q <= p }) = k
        IN IF IsWhitespace(text[i]) THEN "-" ELSE text[i]]

\* The names list pairs its k-th clip with the k-th event that is not a zoom.
NamedInOrder(names) ==
    LET src == WithoutZoom(timeline) IN
    \A k \in 1 .. Len(names) :
        /\ k <= Len(src)
        /\ names[k] = << "GIF-" >> \o Collapsed(src[k].text) \o << ".webm" >>
        /\ \A c \in 1 .. Len(names[k]) : ~IsWhitespace(names[k][c])

\* C26: every highlight clip is named 'GIF-' + the text of its event with
\* every maximal run of whitespace replaced by exactly one '-' + '.webm', so
\* that the name holds no whitespace, and the clips are in the order of their
\* source events: in the list a batch has collected so far and in the list
\* the panel shows.
GifNamesCollapseWhitespace ==
    /\ NamedInOrder(generatedGifs)
    /\ \A h \in Handlers : NamedInOrder(jobs[h].newGifs)

\* The panel shows two clips, the second one of an event whose text holds a
\* run of two spaces.
TwoGifsNamed ==
    /\ mounted /\ Len(generatedGifs) = 2
    /\ generatedGifs[2] = << "GIF-", "a", "-", "b", ".webm" >>

\* C27: a rejected play request is swallowed: a togglePlay of the paused live
\* preview whose play() is rejected leaves isPlaying false and changes
\* nothing else (no error state), and a togglePlay of the paused preview
\* whose play() is accepted starts playback (it does not pause).
RejectedPlaySwallowed ==
    [][(mounted /\ ~isExporting /\ ~isPlaying /\ vid.paused) =>
         /\ TogglePlay(FALSE) => ~isPlaying' /\ UNCHANGED vars
         /\ TogglePlay(TRUE) =>
              /\ ~vid'.paused /\ pending' = Append(pending, "play")
              /\ ~isPlaying']_vars

\* The live preview is paused again after having played, with no event
\* queued: the next togglePlay asks for playback, which may be rejected.
PausedAfterPlaying ==
    /\ mounted /\ ~isExporting /\ ~isPlaying /\ vid.paused
    /\ pending = << >> /\ vid.currentTime > 0 /\ vid.currentTime < MediaEnd

\* A frame of the full export of handler h is drawn in this step.
FullFrameDrawn(h) ==
    /\ jobs[h].kind = "full" /\ mounted
    /\ PlayResolved(h) \/ DrawFrameCallback(h)
    /\ jobs'[h].phase = "render"

ResourcesReleasedOnExit ==
    \A h \in Handlers :
        jobs[h].phase = "stuck" =>
            /\ jobs[h].recorder # "recording"
            /\ jobs[h].audioContext # "running"

\* C30: in a full export with audio the narration is aligned with the video:
\* the narration source of a run that records frames was started at the
\* point where the recording of video from startTime begins (the recorder
\* recording, the offline video seeked and started), not earlier.
NarrationAlignedInExport ==
    \A h \in Handlers :
        (/\ jobs[h].kind = "full" /\ jobs[h].audioContext = "running"
         /\ jobs[h].phase = "render")
        => jobs[h].sourceStartedAt \in { "play", "render" }

\* The output size of a frame in 64ths of a layout unit, and the spacing of
\* the numbers around it.
OutW(f) == (f.width \div LayoutUnit) * Fixed
OutH(f) == (f.height \div LayoutUnit) * Fixed

\* C31, as stated: in every frame drawn the scaled image covers the output
\* (scaledW >= outW and scaledH >= outH, with equality in one dimension) and
\* is centred with dx = (outW - scaledW) / 2 <= 0 and
\* dy = (outH - scaledH) / 2 <= 0.
FitCoverExact ==
    \A h \in Handlers :
        LET f == jobs[h].frame
            l == f.layout
        IN f.t # Undef =>
            /\ l.scaledW[1] >= OutW(f) /\ l.scaledH[1] >= OutH(f)
            /\ l.scaledW[1] = OutW(f) \/ l.scaledH[1] = OutH(f)
            /\ l.dx[1] <= 0 /\ l.dy[1] <= 0

\* C31, amended: in every frame drawn the scaled image covers the output up
\* to one rounding error of the output size: scaledW and scaledH fall short
\* of outW and outH by at most one unit in the last place, one of them is
\* within one unit in the last place of its output size, and dx and dy
\* exceed 0 by at most half of that unit.
FitCoverUpToRounding ==
    \A h \in Handlers :
        LET f == jobs[h].frame
            l == f.layout
            uw == Ulp(OutW(f))
            uh == Ulp(OutH(f))
        IN f.t # Undef =>
            /\ l.scaledW[1] >= OutW(f) - uw /\ l.scaledH[1] >= OutH(f) - uh
            /\ Abs(l.scaledW[1] - OutW(f)) <= uw \/ Abs(l.scaledH[1] - OutH(f)) <= uh
            /\ l.dx[1] <= uw /\ l.dy[1] <= uh
            /\ l.dx[2] = 2 * Fixed /\ l.dy[2] = 2 * Fixed

\* A frame has been drawn whose scaled image is narrower than the output.
ScaledImageShort ==
    \E h \in Handlers :
        /\ jobs[h].frame.t # Undef
        /\ jobs[h].frame.layout.scaledW[1] < OutW(jobs[h].frame)

\* C32: a run started by handleGenerateMagicGifs renders landscape 1280x720,
\* attaches no narration and draws no subtitle, whatever the voiceover
\* setting; a full export draws a subtitle at t exactly when one is active
\* at t.
HighlightProfileApplied ==
    \A h \in Handlers :
        LET j == jobs[h]
            f == j.frame
        IN /\ j.kind = "gif" =>
                /\ j.format = "landscape" /\ j.audioContext = "none"
                /\ j.sourceStartedAt = "none"
                /\ f.t # Undef =>
                     f.width = 1280 /\ f.height = 720 /\ ~f.hasSubtitle
           /\ (j.kind = "full" /\ f.t # Undef) =>
                /\ f.hasSubtitle <=> Holding(subtitles, f.t) # {}
                /\ f.hasSubtitle =>
                     \E i \in Holding(subtitles, f.t) : f.subtitle = subtitles[i].text

\* A clip has drawn a frame at a time at which a subtitle is active, in a
\* project with a narration, started with the voiceover enabled.
ClipFrameUnderSubtitle ==
    \E h \in Handlers :
        /\ jobs[h].kind = "gif" /\ jobs[h].frame.t # Undef
        /\ jobs[h].vo /\ audioBlob
        /\ Holding(subtitles, jobs[h].frame.t) # {}

\* C33: an export draws a caption box at t only for an event of type
\* 'caption' whose interval holds t, and draws one whenever there is such an
\* event; zoom and highlight events never produce a box, also when they come
\* before an active caption in the list.
CaptionBoxOnlyForCaptions ==
    \A h \in Handlers :
        LET f == jobs[h].frame
            captions == Holding(timeline, f.t) \cap OfType(timeline, "caption")
        IN f.t # Undef =>
            /\ f.hasCaption <=> captions # {}
            /\ f.hasCaption => \E i \in captions : f.caption = timeline[i].text
            /\ \A i \in 1 .. Len(timeline) :
                   (f.hasCaption /\ timeline[i].type # "caption")
                       => f.caption # timeline[i].text

\* A run has drawn a caption box at a time at which the first active event
\* of the list is not a caption.
CaptionDrawnBehindOtherEvent ==
    \E h \in Handlers :
        /\ jobs[h].frame.t # Undef /\ jobs[h].frame.hasCaption
        /\ timeline[ActiveEvent(timeline, jobs[h].frame.t)].type # "caption"

\* C34: a live-preview tick recomputes the zoom from scratch: at a time at
\* which no zoom event is active it resets the zoom to the identity (origin
\* centre, scale 1) whatever the zoom was before, and the zoom after a tick
\* is a function of the video time and the timeline alone.
ZoomRecomputedEveryTick ==
    [][(HandleTimeUpdate /\ ~isExporting) =>
         /\ Holding(timeline, vid.currentTime) \cap OfType(timeline, "zoom") = {}
               => /\ zoomStyle'.origin = << 50, 50 >>
                  /\ zoomStyle'.scale = 10
                  /\ zoomStyle'.transition = "ease-out"
         /\ zoomStyle' = ZoomStyleAt(timeline, vid.currentTime)]_vars

\* The preview is zoomed in and its video stands at a time at which no zoom
\* event is active: the next tick has a zoom to undo.
ZoomedOutsideZoomEvents ==
    /\ mounted /\ ~isExporting
    /\ zoomStyle.scale > 10
    /\ Holding(timeline, vid.currentTime) \cap OfType(timeline, "zoom") = {}

\* The lists with the entries of list in another order.
Reordered(list) ==
    { [i \in 1 .. Len(list) |-> list[p[i]]] : p \in Permutations(1 .. Len(list)) }

\* The entry a query returned, as a list of at most one entry.
Entry(list, r) == IF r = 0 THEN << >> ELSE << list[r] >>

\* C35 as stated: at every time t each activity query returns the same
\* entry on every reordering of the list it searches.
QueriesIgnoreListOrder ==
    [][AnalyzeVideo => \A t \in 0 .. MediaEnd :
         /\ \A tl \in Reordered(timeline') :
              /\ Entry(tl, ActiveEvent(tl, t))
                    = Entry(timeline', ActiveEvent(timeline', t))
              /\ Entry(tl, ExportCaption(tl, t))
                    = Entry(timeline', ExportCaption(timeline', t))
              /\ Entry(tl, ActiveZoom(tl, t))
                    = Entry(timeline', ActiveZoom(timeline', t))
         /\ \A subs \in Reordered(subtitles') :
              Entry(subs, ActiveSubtitle(subs, t))
                = Entry(subtitles', ActiveSubtitle(subtitles', t))]_vars

\* C35: at every time t that at most one qualifying entry holds, each
\* activity query returns the same entry on every reordering of the list it
\* searches, and a tick stores the entry it would store on any reordering.
QueriesIgnoreOrderWithoutOverlap ==
    [][/\ AnalyzeVideo => \A t \in 0 .. MediaEnd :
            LET One(among) == Cardinality(among) <= 1 IN
            /\ \A tl \in Reordered(timeline') :
                 /\ One(Holding(timeline', t)) =>
                      Entry(tl, ActiveEvent(tl, t))
                        = Entry(timeline', ActiveEvent(timeline', t))
                 /\ One(Holding(timeline', t) \cap OfType(timeline', "caption")) =>
                      Entry(tl, ExportCaption(tl, t))
                        = Entry(timeline', ExportCaption(timeline', t))
                 /\ One(Holding(timeline', t) \cap OfType(timeline', "zoom")) =>
                      Entry(tl, ActiveZoom(tl, t))
                        = Entry(timeline', ActiveZoom(timeline', t))
            /\ \A subs \in Reordered(subtitles') :
                 One(Holding(subtitles', t)) =>
                   Entry(subs, ActiveSubtitle(subs, t))
                     = Entry(subtitles', ActiveSubtitle(subtitles', t))
       /\ (HandleTimeUpdate /\ ~isExporting) =>
            /\ Cardinality(Holding(timeline, vid.currentTime)) <= 1 =>
                 \A tl \in Reordered(timeline) :
                    Entry(tl, ActiveEvent(tl, vid.currentTime))
                      = Entry(timeline, currentCaption')
            /\ Cardinality(Holding(subtitles, vid.currentTime)) <= 1 =>
                 \A subs \in Reordered(subtitles) :
                    Entry(subs, ActiveSubtitle(subs, vid.currentTime))
                      = Entry(subtitles, currentSubtitle')]_vars

\* A tick has stored the only event holding its time, which is not the
\* first of the list.
OnlyHolderShown ==
    /\ mounted /\ currentTime > 0 /\ currentCaption > 1
    /\ Holding(timeline, currentTime) = { currentCaption }

\* C36: the preview and the export agree on the caption overlay: the event
\* a live-preview tick stores as currentCaption, which the preview shows as
\* the caption, is the event the export draws as caption at the same time,
\* and none is stored when the export draws none.
PreviewCaptionIsExportCaption ==
    [][(HandleTimeUpdate /\ ~isExporting) =>
         Entry(timeline, currentCaption')
           = Entry(timeline, ExportCaption(timeline, vid.currentTime))]_vars

\* C37: whenever no export is running and every media event has been
\* handled, isPlaying is true exactly when the preview video is playing.
IsPlayingTracksVideo ==
    (mounted /\ ~isExporting /\ pending = << >>) => (isPlaying <=> ~vid.paused)

\* C38: whenever isExporting is false, exportProgress is 0.
ProgressZeroWhenIdle == (mounted /\ ~isExporting) => exportProgress = 0

\* C39: while an export is running the playback controls are inert:
\* togglePlay and the slider's seek leave the video clock, the audio clock,
\* isPlaying and currentTime as they are, and the handling of a 'seeking'
\* event does not move the audio clock.
ControlsInertWhileExporting ==
    [][isExporting =>
         /\ ((\E accepted \in BOOLEAN : TogglePlay(accepted))
                \/ (\E x \in SeekTargets : Seek(x)))
              => /\ vid' = vid /\ aud' = aud
                 /\ isPlaying' = isPlaying /\ currentTime' = currentTime
                 /\ pending' = pending
         /\ (DispatchMediaEvent /\ Head(pending) = "seeking")
              => aud'.currentTime = aud.currentTime]_vars

\* During an export a 'seeking' event has been handled with the video clock
\* away from the audio clock, and the audio clock was left where it was.
SeekingHandledWhileExporting ==
    /\ mounted /\ isExporting /\ audioBlob /\ pending = << >>
    /\ vid.currentTime # aud.currentTime

\* C40: every clip window handleGenerateMagicGifs passes to renderToVideo
\* has startTime <= endTime.
ClipWindowWellFormed ==
    \A h \in Handlers :
        jobs[h].kind = "gif" => jobs[h].startTime <= jobs[h].endTime

====
